---- MODULE Spec2Model ----
(***************************************************************************)
(* Security layer of YEP: groups with inheritance, model and field access  *)
(* control lists, record rules and the policy facade built on them.        *)
(*                                                                         *)
(* The behaviour documented in "Security in YEP" (src/unnamed/part_000) is *)
(* modelled from that document.  The parts of the engine the document does *)
(* not describe (administrator default, registration errors, snapshot      *)
(* publication) are modelled from the design specification of the engine.  *)
(***************************************************************************)
EXTENDS Integers, Sequences, FiniteSets, TLC

VARIABLES
    groups,     \* registered group identifiers
    parents,    \* parents[g]: the groups g inherits from
    regErr,     \* outcome of the last register call
    modelACL,   \* ordered access control entries of the model
    fieldACL,   \* fieldACL[f]: ordered access control entries of field f
    rules,      \* ordered record rules of the model
    memo,       \* memo[g]: memoized effective groups of g, or Null
    last,       \* the last registry call made
    pub,        \* published snapshots of the group graph, the last one current
    readers     \* readers[r]: position and values of a concurrent reader

vars == <<groups, parents, regErr, modelACL, fieldACL, rules, memo, last, pub, readers>>

concVars == <<pub, readers>>

(***************************************************************************)
(* Bounds of the exploration.                                              *)
(***************************************************************************)
MaxEntries == 2

(***************************************************************************)
(* Permissions: type Permission uint8, one bit per operation.              *)
(***************************************************************************)
Create == 1
Read == 2
Write == 4
Unlink == 8
All == 15

Bits == {Create, Read, Write, Unlink}

HasBit(p, b) == (p \div b) % 2 = 1

BitIf(c, b) == IF c THEN b ELSE 0

\* p | q
PermOr(p, q) ==
    BitIf(HasBit(p, Create) \/ HasBit(q, Create), Create)
    + BitIf(HasBit(p, Read) \/ HasBit(q, Read), Read)
    + BitIf(HasBit(p, Write) \/ HasBit(q, Write), Write)
    + BitIf(HasBit(p, Unlink) \/ HasBit(q, Unlink), Unlink)

\* p & q
PermAnd(p, q) ==
    BitIf(HasBit(p, Create) /\ HasBit(q, Create), Create)
    + BitIf(HasBit(p, Read) /\ HasBit(q, Read), Read)
    + BitIf(HasBit(p, Write) /\ HasBit(q, Write), Write)
    + BitIf(HasBit(p, Unlink) /\ HasBit(q, Unlink), Unlink)

\* p &^ q
PermAndNot(p, q) ==
    BitIf(HasBit(p, Create) /\ ~HasBit(q, Create), Create)
    + BitIf(HasBit(p, Read) /\ ~HasBit(q, Read), Read)
    + BitIf(HasBit(p, Write) /\ ~HasBit(q, Write), Write)
    + BitIf(HasBit(p, Unlink) /\ ~HasBit(q, Unlink), Unlink)

\* Only Read, Write and Create are applicable to fields.
FieldPerms == Create + Read + Write

(***************************************************************************)
(* Groups.                                                                 *)
(***************************************************************************)
AdminGroup == "admin"
GroupIds == {AdminGroup, "sale_manager", "sale_user"}
NoParents == [g \in GroupIds |-> {}]
\* No effective-groups set is empty, so the empty set marks a missing memo.
Null == {}

Call(op, name, ps) == [op |-> op, name |-> name, ps |-> ps]
NoMemo == [g \in GroupIds |-> Null]

\* effectiveGroups(group) = {group} \cup effectiveGroups(p) for p in parents
RECURSIVE EffectiveGroups(_, _)
EffectiveGroups(par, g) ==
    {g} \cup UNION {EffectiveGroups(par, p) : p \in par[g]}

\* effectiveGroups(actor): union over the groups the actor belongs to
ActorGroups(par, actorGroups) ==
    UNION {EffectiveGroups(par, g) : g \in actorGroups}

Actors == SUBSET GroupIds

Readers == {"reader1", "reader2"}
Idle == [pc |-> "idle", ver |-> 0, group |-> "", val |-> {}]

(***************************************************************************)
(* Access control entries and their evaluation.                            *)
(***************************************************************************)
Fields == {"Function"}
NoField == "none"

PermChoices == {Read, Create + Write, Unlink}

Entry(allow, group, perm) == [Allow |-> allow, Group |-> group, Perm |-> perm]

Entries == {Entry(a, g, p) : a \in BOOLEAN, g \in GroupIds, p \in PermChoices}

\* Variant: deny masks with perm itself instead of its complement.
ApplyEntry_NoComplement(result, e) ==
    IF e.Allow THEN PermOr(result, e.Perm) ELSE PermAnd(result, e.Perm)

\* allow: result |= perm; deny: result &= ~perm
ApplyEntry(result, e) ==
    IF e.Allow THEN PermOr(result, e.Perm) ELSE PermAndNot(result, e.Perm)

\* The entries are replayed in the order of insertion, an entry being applied
\* when its group is one of the actor's effective groups.
RECURSIVE ScanEntries(_, _, _, _)
ScanEntries(entries, i, result, eff) ==
    IF i > Len(entries) THEN result
    ELSE ScanEntries(entries, i + 1,
                     IF entries[i].Group \in eff
                        THEN ApplyEntry(result, entries[i])
                        ELSE result,
                     eff)

\* Variant: the default list allows everybody.
DefaultACL_Open(eff) == All

\* By default only the members of the AdminGroup are allowed.
DefaultACL(eff) == IF AdminGroup \in eff THEN All ELSE 0

\* Variant: the default is kept whatever the entries.
AdminDefaultApplies_Always(entries) == TRUE

\* The default applies until an entry of the target names the AdminGroup.
AdminDefaultApplies(entries) ==
    \A i \in 1..Len(entries) : entries[i].Group # AdminGroup

InitialPermission(entries, eff) ==
    IF AdminDefaultApplies(entries) THEN DefaultACL(eff) ELSE 0

EntriesPermission(entries, eff) ==
    ScanEntries(entries, 1, InitialPermission(entries, eff), eff)

ModelPermission(par, macl, actorGroups) ==
    EntriesPermission(macl, ActorGroups(par, actorGroups))

\* Variant: the model permission is passed on unmasked.
FieldDefault_Unmasked(par, macl, actorGroups) ==
    ModelPermission(par, macl, actorGroups)

\* Field permissions are set by default on the fields of models which are
\* granted the respective permission.
FieldDefault(par, macl, actorGroups) ==
    PermAnd(ModelPermission(par, macl, actorGroups), FieldPerms)

FieldPermission(par, macl, facl, actorGroups) ==
    IF facl = <<>>
       THEN FieldDefault(par, macl, actorGroups)
       ELSE EntriesPermission(facl, ActorGroups(par, actorGroups))

\* effectivePermission(actorGroups, target), target a model or a field of it
EffectivePermission(actorGroups, f) ==
    IF f = NoField
       THEN ModelPermission(parents, modelACL, actorGroups)
       ELSE FieldPermission(parents, modelACL, fieldACL[f], actorGroups)

\* Variant: the field is consulted for every operation.
ConsultsField_Always(op, f) == f # NoField

\* When deleting a record, fields permissions are not evaluated.
ConsultsField(op, f) == f # NoField /\ op # Unlink

\* The permission on the model and on the field must match.
MayAccess(actorGroups, op, f) ==
    /\ HasBit(EffectivePermission(actorGroups, NoField), op)
    /\ ConsultsField(op, f) => HasBit(EffectivePermission(actorGroups, f), op)

(***************************************************************************)
(* Operations on the access control table.                                 *)
(***************************************************************************)
TotalEntries == Len(modelACL) + Len(fieldACL["Function"])

AllowModelAccess(group, perm) ==
    /\ TotalEntries < MaxEntries
    /\ modelACL' = Append(modelACL, Entry(TRUE, group, perm))
    /\ UNCHANGED <<groups, parents, regErr, fieldACL, rules, memo, last, concVars>>

DenyModelAccess(group, perm) ==
    /\ TotalEntries < MaxEntries
    /\ modelACL' = Append(modelACL, Entry(FALSE, group, perm))
    /\ UNCHANGED <<groups, parents, regErr, fieldACL, rules, memo, last, concVars>>

AllowFieldAccess(f, group, perm) ==
    /\ TotalEntries < MaxEntries
    /\ fieldACL' = [fieldACL EXCEPT ![f] = Append(@, Entry(TRUE, group, perm))]
    /\ UNCHANGED <<groups, parents, regErr, modelACL, rules, memo, last, concVars>>

DenyFieldAccess(f, group, perm) ==
    /\ TotalEntries < MaxEntries
    /\ fieldACL' = [fieldACL EXCEPT ![f] = Append(@, Entry(FALSE, group, perm))]
    /\ UNCHANGED <<groups, parents, regErr, modelACL, rules, memo, last, concVars>>

\* Inheritance graphs the registration phase can leave behind.
GraphChoices ==
    { [NoParents EXCEPT !["sale_manager"] = {"sale_user"}],
      [NoParents EXCEPT !["sale_manager"] = {AdminGroup}],
      [NoParents EXCEPT ![AdminGroup] = {"sale_user"}] }

InitACL ==
    /\ groups = GroupIds
    /\ parents \in GraphChoices
    /\ regErr = "ok"
    /\ modelACL = <<>>
    /\ fieldACL = [f \in Fields |-> <<>>]
    /\ rules = <<>>
    /\ memo = NoMemo
    /\ last = Call("init", "", {})
    /\ pub = <<>>
    /\ readers = [r \in Readers |-> Idle]

NextACL ==
    \/ \E g \in GroupIds, p \in PermChoices : AllowModelAccess(g, p)
    \/ \E g \in GroupIds, p \in PermChoices : DenyModelAccess(g, p)
    \/ \E f \in Fields, g \in GroupIds, p \in PermChoices : AllowFieldAccess(f, g, p)
    \/ \E f \in Fields, g \in GroupIds, p \in PermChoices : DenyFieldAccess(f, g, p)

SpecACL == InitACL /\ [][NextACL]_vars

(***************************************************************************)
(* Properties of the access control table.                                 *)
(***************************************************************************)
Targets == {NoField} \cup Fields

RECURSIVE Iterate(_, _, _)
Iterate(par, S, n) ==
    IF n = 0 THEN S ELSE Iterate(par, S \cup UNION {par[x] : x \in S}, n - 1)

\* Transitive closure of the parents of g.
Ancestors(par, g) == Iterate(par, par[g], Cardinality(GroupIds))

Acyclic(par) == \A g \in GroupIds : g \notin Ancestors(par, g)

TargetEntries(f) == IF f = NoField THEN modelACL ELSE fieldACL[f]

\* Left fold of the entries of a target over the groups in eff, from start.
RECURSIVE LeftFold(_, _, _)
LeftFold(entries, start, eff) ==
    IF entries = <<>> THEN start
    ELSE LET n == Len(entries)
             before == LeftFold(SubSeq(entries, 1, n - 1), start, eff)
         IN  IF entries[n].Group \notin eff THEN before
             ELSE IF entries[n].Allow THEN PermOr(before, entries[n].Perm)
             ELSE PermAndNot(before, entries[n].Perm)

\* Indexes of the entries that act on bit b for an actor with groups eff.
Touching(entries, eff, b) ==
    {i \in 1..Len(entries) : entries[i].Group \in eff /\ HasBit(entries[i].Perm, b)}

Max(S) == CHOOSE x \in S : \A y \in S : y <= x

\* The last entry acting on a bit decides it; an untouched bit keeps its start.
LastWins(entries, start, eff, b) ==
    IF Touching(entries, eff, b) = {} THEN HasBit(start, b)
    ELSE entries[Max(Touching(entries, eff, b))].Allow

FoldStart(entries, eff) ==
    IF AdminGroup \in eff /\ \A i \in 1..Len(entries) : entries[i].Group # AdminGroup
       THEN All ELSE 0

\* C1 (as stated): every model or field with no entries gives All to an
\* administrator actor and the empty permission set to every other actor.
C1_DefaultAllTargets ==
    \A f \in Targets : TargetEntries(f) = <<>> =>
        \A a \in Actors :
            EffectivePermission(a, f) =
                IF AdminGroup \in ActorGroups(parents, a) THEN All ELSE 0

\* C1 (amended): a model with no entries gives All to an actor whose
\* effective groups contain the administrator group and the empty permission
\* set to every other actor; a field with no entries of such a model gives
\* Create, Read and Write to the former and the empty set to the latter.
C1_DefaultModel ==
    modelACL = <<>> =>
        \A a \in Actors :
            LET admin == \E g \in a : AdminGroup \in {g} \cup Ancestors(parents, g)
            IN  /\ EffectivePermission(a, NoField) = IF admin THEN All ELSE 0
                /\ \A f \in Fields : fieldACL[f] = <<>> =>
                      EffectivePermission(a, f) =
                          IF admin THEN Create + Read + Write ELSE 0

C1_Witness ==
    /\ modelACL = <<>>
    /\ fieldACL["Function"] = <<>>
    /\ AdminGroup \in parents["sale_manager"]
    /\ EffectivePermission({"sale_manager"}, NoField) = All
    /\ EffectivePermission({"sale_user"}, NoField) = 0

C4_FieldDefault ==
    \A f \in Fields : fieldACL[f] = <<>> =>
        \A a \in Actors :
            LET onField == EffectivePermission(a, f)
                onModel == EffectivePermission(a, NoField)
            IN  \A b \in Bits :
                    HasBit(onField, b) = (b # Unlink /\ HasBit(onModel, b))

C4_Witness ==
    /\ fieldACL["Function"] = <<>>
    /\ Len(modelACL) = 2
    /\ EffectivePermission({"sale_user"}, NoField) = Create + Write + Unlink
    /\ EffectivePermission({"sale_user"}, "Function") = Create + Write

C5_FieldEntryFrame ==
    [][\A f \in Fields, e \in Entries :
          (e.Perm = Read /\ fieldACL'[f] = Append(fieldACL[f], e)) =>
              \A h \in GroupIds : e.Group \notin {h} \cup Ancestors(parents, h) =>
                  \A b \in {Create, Write} :
                      /\ HasBit(FieldPermission(parents, modelACL, fieldACL'[f], {h}), b)
                            = HasBit(FieldPermission(parents, modelACL, fieldACL[f], {h}), b)
                      /\ fieldACL[f] = <<>> =>
                            HasBit(FieldPermission(parents, modelACL, fieldACL'[f], {h}), b)
                                = HasBit(ModelPermission(parents, modelACL, {h}), b)]_vars

C9_UnlinkIgnoresFields ==
    \A a \in Actors, f \in Fields :
        LET withField == MayAccess(a, Unlink, f)
        IN  /\ withField = MayAccess(a, Unlink, NoField)
            /\ withField = HasBit(ModelPermission(parents, modelACL, a), Unlink)

C9_Witness ==
    /\ Len(fieldACL["Function"]) > 0
    /\ MayAccess({"sale_user"}, Unlink, "Function")
    /\ ~HasBit(EffectivePermission({"sale_user"}, "Function"), Unlink)

(***************************************************************************)
(* Record rules.                                                           *)
(***************************************************************************)
Records == {"own", "other"}

RuleNames == {"salesman_own_partner", "manager_all_partners", "active_partners"}

\* A Condition is represented by the records on which it holds for the
\* requesting user.
Conditions == {{"own"}, {"other"}}

RulePerms == {Read, Write + Unlink}

RecordRule(name, global, group, cond, perms) ==
    [Name |-> name, Global |-> global, Group |-> group,
     Condition |-> cond, Perms |-> perms]

\* Scope of a rule: global (its Group is then ignored) or bound to a group.
RuleScopes == {<<TRUE, "sale_user">>, <<FALSE, "sale_user">>, <<FALSE, "sale_manager">>}

RuleSpace ==
    {RecordRule(n, sc[1], sc[2], c, p) :
        n \in RuleNames, sc \in RuleScopes, c \in Conditions, p \in RulePerms}

RuleNamesOf(rs) == {rs[i].Name : i \in 1..Len(rs)}

\* Register the rule; a rule whose Name already exists is overwritten.
AddRule(rs, rule) ==
    IF rule.Name \in RuleNamesOf(rs)
       THEN [i \in 1..Len(rs) |-> IF rs[i].Name = rule.Name THEN rule ELSE rs[i]]
       ELSE Append(rs, rule)

KeepsRule(rule, name) == rule.Name # name

\* Variant: removal leaves the registry as it is.
RemoveRule_Noop(rs, name) == rs

\* Remove the rule with the given name.
RECURSIVE RemoveRule(_, _)
RemoveRule(rs, name) ==
    IF rs = <<>> THEN <<>>
    ELSE IF KeepsRule(Head(rs), name)
            THEN <<Head(rs)>> \o RemoveRule(Tail(rs), name)
            ELSE RemoveRule(Tail(rs), name)

\* Perms define on which operations the rule is called.
RuleCalled(rule, op) == HasBit(rule.Perms, op)

\* Variant: a group rule concerns every actor.
GroupRuleInScope_Everyone(rule, eff) == TRUE

\* A group rule concerns the actors that have its group.
GroupRuleInScope(rule, eff) == rule.Group \in eff

\* Global rules must all match; if there are group rules for the actor, one
\* of them must match.  Rules are not consulted on creation.
RECURSIVE ScanRules(_, _, _, _, _, _, _, _)
ScanRules(rs, i, eff, op, r, globalsMatch, hasGroupRule, groupMatch) ==
    IF i > Len(rs) THEN globalsMatch /\ (~hasGroupRule \/ groupMatch)
    ELSE IF ~RuleCalled(rs[i], op)
            THEN ScanRules(rs, i + 1, eff, op, r, globalsMatch, hasGroupRule, groupMatch)
    ELSE IF rs[i].Global
            THEN ScanRules(rs, i + 1, eff, op, r,
                           globalsMatch /\ r \in rs[i].Condition,
                           hasGroupRule, groupMatch)
    ELSE IF GroupRuleInScope(rs[i], eff)
            THEN ScanRules(rs, i + 1, eff, op, r, globalsMatch, TRUE,
                           groupMatch \/ r \in rs[i].Condition)
    ELSE ScanRules(rs, i + 1, eff, op, r, globalsMatch, hasGroupRule, groupMatch)

CombinedPredicate(rs, par, actorGroups, op, r) ==
    IF op = Create THEN TRUE
    ELSE ScanRules(rs, 1, ActorGroups(par, actorGroups), op, r, TRUE, FALSE, FALSE)

AddRecordRule(rule) ==
    /\ rules' = AddRule(rules, rule)
    /\ last' = Call("AddRecordRule", rule.Name, {})
    /\ UNCHANGED <<groups, parents, regErr, modelACL, fieldACL, memo, concVars>>

RemoveRecordRule(name) ==
    /\ rules' = RemoveRule(rules, name)
    /\ last' = Call("RemoveRecordRule", name, {})
    /\ UNCHANGED <<groups, parents, regErr, modelACL, fieldACL, memo, concVars>>

InitRules ==
    /\ groups = GroupIds
    /\ parents = [NoParents EXCEPT !["sale_manager"] = {"sale_user"}]
    /\ regErr = "ok"
    /\ modelACL = <<>>
    /\ fieldACL = [f \in Fields |-> <<>>]
    /\ rules = <<>>
    /\ memo = NoMemo
    /\ last = Call("init", "", {})
    /\ pub = <<>>
    /\ readers = [r \in Readers |-> Idle]

NextRules ==
    \/ \E rule \in RuleSpace : AddRecordRule(rule)
    \/ \E name \in RuleNames : RemoveRecordRule(name)

SpecRules == InitRules /\ [][NextRules]_vars

(***************************************************************************)
(* Properties of the record rules.                                         *)
(***************************************************************************)
RuleOps == {Read, Write, Unlink}

GlobalRules(rs, op) ==
    {i \in 1..Len(rs) : rs[i].Global /\ HasBit(rs[i].Perms, op)}

GroupRules(rs, eff, op) ==
    {i \in 1..Len(rs) : ~rs[i].Global /\ HasBit(rs[i].Perms, op) /\ rs[i].Group \in eff}

Visible(rs, eff, op, r) ==
    /\ \A i \in GlobalRules(rs, op) : r \in rs[i].Condition
    /\ \/ GroupRules(rs, eff, op) = {}
       \/ \E i \in GroupRules(rs, eff, op) : r \in rs[i].Condition

SamePredicate(rs1, rs2) ==
    \A a \in Actors, op \in RuleOps, r \in Records :
        CombinedPredicate(rs1, parents, a, op, r) = CombinedPredicate(rs2, parents, a, op, r)

\* C3: for Read, Write and Unlink the combined predicate holds on a record
\* iff every global rule called for the operation matches it and, when some
\* group rule called for the operation belongs to a group of the actor's
\* closure, at least one of those matches it.
C3_Combination ==
    \A a \in Actors, op \in RuleOps, r \in Records :
        CombinedPredicate(rules, parents, a, op, r)
            = Visible(rules, ActorGroups(parents, a), op, r)

C3_Witness ==
    /\ Len(rules) = 3
    /\ \E i, j, k \in 1..3 :
          /\ rules[i].Global /\ rules[i].Perms = Read /\ rules[i].Condition = {"own"}
          /\ ~rules[j].Global /\ rules[j].Group = "sale_user" /\ rules[j].Perms = Read
          /\ rules[j].Condition = {"own"}
          /\ ~rules[k].Global /\ rules[k].Group = "sale_manager" /\ rules[k].Perms = Read
          /\ rules[k].Condition = {"other"}
    /\ CombinedPredicate(rules, parents, {"sale_user"}, Read, "own")
    /\ ~CombinedPredicate(rules, parents, {"sale_user"}, Read, "other")
    /\ CombinedPredicate(rules, parents, {"sale_manager"}, Read, "own")
    /\ CombinedPredicate(rules, parents, {AdminGroup}, Read, "own")
    /\ ~CombinedPredicate(rules, parents, {AdminGroup}, Read, "other")

\* C7: removing a rule right after it was added under a new name gives back
\* the registry as it was (same rules in the same order, same combined
\* predicate), and removing a name that is not registered changes nothing.
C7_RemovalExact ==
    /\ [](\A n \in RuleNames \ RuleNamesOf(rules) : RemoveRule(rules, n) = rules)
    /\ [][\A n \in RuleNames :
            (n \notin RuleNamesOf(rules) /\ n \in RuleNamesOf(rules')) =>
                /\ RemoveRule(rules', n) = rules
                /\ SamePredicate(RemoveRule(rules', n), rules)]_vars

C7_Witness ==
    /\ last = Call("RemoveRecordRule", "manager_all_partners", {})
    /\ Len(rules) = 2
    /\ rules[1].Name = "active_partners"
    /\ rules[2].Name = "salesman_own_partner"

(***************************************************************************)
(* Group registry.                                                         *)
(***************************************************************************)
\* Variant: only a group naming itself as parent is detected.
WouldCycle_SelfOnly(par, name, ps) == name \in ps

\* A parent chain from one of ps would reach the new group.
WouldCycle(par, name, ps) ==
    \/ name \in ps
    \/ \E p \in ps : name \in EffectiveGroups(par, p)

\* The groups whose effective groups hold g.
Descendants(par, g) == {h \in GroupIds : g \in EffectiveGroups(par, h)}

\* The memo is invalidated for all descendants of a group whose parents change.
Invalidate(m, par, g) ==
    [h \in GroupIds |-> IF h \in Descendants(par, g) THEN Null ELSE m[h]]

Register(name, ps) ==
    /\ last' = Call("register", name, ps)
    /\ IF name \in groups
          THEN /\ regErr' = "DuplicateGroupError"
               /\ UNCHANGED <<groups, parents, memo, concVars>>
       ELSE IF WouldCycle(parents, name, ps)
          THEN /\ regErr' = "CycleError"
               /\ UNCHANGED <<groups, parents, memo, concVars>>
       ELSE /\ regErr' = "ok"
            /\ groups' = groups \cup {name}
            /\ parents' = [parents EXCEPT ![name] = ps]
            /\ memo' = Invalidate(memo, parents, name)
    /\ UNCHANGED <<modelACL, fieldACL, rules, concVars>>

\* effectiveGroups(group), memoized.
MemoizedEffectiveGroups(m, par, g) ==
    IF m[g] # Null THEN m[g] ELSE EffectiveGroups(par, g)

Lookup(g) ==
    /\ g \in groups
    /\ last' = Call("effectiveGroups", g, {})
    /\ regErr' = "ok"
    /\ memo' = [memo EXCEPT ![g] = MemoizedEffectiveGroups(memo, parents, g)]
    /\ UNCHANGED <<groups, parents, modelACL, fieldACL, rules, concVars>>

InitGroups ==
    /\ groups = {AdminGroup}
    /\ parents = NoParents
    /\ regErr = "ok"
    /\ modelACL = <<>>
    /\ fieldACL = [f \in Fields |-> <<>>]
    /\ rules = <<>>
    /\ memo = NoMemo
    /\ last = Call("init", "", {})
    /\ pub = <<>>
    /\ readers = [r \in Readers |-> Idle]

NextGroups ==
    \/ \E name \in GroupIds, ps \in SUBSET GroupIds : Register(name, ps)
    \/ \E g \in GroupIds : Lookup(g)

SpecGroups == InitGroups /\ [][NextGroups]_vars

(***************************************************************************)
(* Properties of the group registry.                                       *)
(***************************************************************************)
\* C8: a register call of a registered name returns DuplicateGroupError, one
\* whose parent chain would reach the new group returns CycleError, and both
\* leave groups and inheritance edges as they were; the inheritance graph is
\* acyclic in every state and effectiveGroups(g) is g plus the transitive
\* closure of its parents.
C8_RegisterFailsClosed ==
    /\ [](/\ Acyclic(parents)
          /\ \A g \in groups :
                MemoizedEffectiveGroups(memo, parents, g) = {g} \cup Ancestors(parents, g))
    /\ [][\A name \in GroupIds, ps \in SUBSET GroupIds :
            last' = Call("register", name, ps) =>
                /\ (regErr' = "DuplicateGroupError") = (name \in groups)
                /\ (regErr' = "CycleError") =
                      (name \notin groups /\ (name \in ps \/ name \in UNION {Ancestors(parents, p) : p \in ps}))
                /\ regErr' # "ok" => (groups' = groups /\ parents' = parents)
                /\ regErr' = "ok" => (groups' = groups \cup {name} /\ parents'[name] = ps)]_vars

C8_Witness ==
    /\ regErr = "CycleError"
    /\ last = Call("register", "sale_user", {"sale_manager"})
    /\ parents["sale_manager"] = {"sale_user"}
    /\ "sale_user" \notin groups
    /\ memo["sale_manager"] = {"sale_manager", "sale_user"}

(***************************************************************************)
(* Runtime mutation of the group graph under concurrent readers.           *)
(***************************************************************************)
Snapshot(par, m) == [par |-> par, memo |-> m]

\* Variant: the memo of the previous snapshot is carried over.
PublishedMemo_Kept(old) == old

\* The memo published with a new snapshot.
PublishedMemo(old) == NoMemo

\* Revoking an inheritance edge publishes a new immutable snapshot together
\* with its invalidated memo, in one step.
RevokeParent(child, parent) ==
    /\ parent \in pub[Len(pub)].par[child]
    /\ pub' = Append(pub,
                     Snapshot([pub[Len(pub)].par EXCEPT ![child] = @ \ {parent}],
                              PublishedMemo(pub[Len(pub)].memo)))
    /\ UNCHANGED <<groups, parents, regErr, modelACL, fieldACL, rules, memo, last, readers>>

\* A reader takes the current snapshot.
ReaderLoad(r, g) ==
    /\ readers[r].pc = "idle"
    /\ readers' = [readers EXCEPT ![r] = [pc |-> "loaded", ver |-> Len(pub), group |-> g, val |-> {}]]
    /\ UNCHANGED <<groups, parents, regErr, modelACL, fieldACL, rules, memo, last, pub>>

\* The reader obtains the effective groups from the snapshot it took,
\* through that snapshot's memo.
ReaderLookup(r) ==
    /\ readers[r].pc = "loaded"
    /\ LET v == readers[r].ver
           g == readers[r].group
           val == MemoizedEffectiveGroups(pub[v].memo, pub[v].par, g)
       IN  /\ readers' = [readers EXCEPT ![r].pc = "done", ![r].val = val]
           /\ pub' = [pub EXCEPT ![v].memo[g] = val]
    /\ UNCHANGED <<groups, parents, regErr, modelACL, fieldACL, rules, memo, last>>

ReaderReturn(r) ==
    /\ readers[r].pc = "done"
    /\ readers' = [readers EXCEPT ![r] = Idle]
    /\ UNCHANGED <<groups, parents, regErr, modelACL, fieldACL, rules, memo, last, pub>>

InitConc ==
    /\ groups = GroupIds
    /\ parents = [NoParents EXCEPT !["sale_manager"] = {"sale_user"},
                                   !["sale_user"] = {AdminGroup}]
    /\ regErr = "ok"
    /\ modelACL = <<>>
    /\ fieldACL = [f \in Fields |-> <<>>]
    /\ rules = <<>>
    /\ memo = NoMemo
    /\ last = Call("init", "", {})
    /\ pub = <<Snapshot(parents, NoMemo)>>
    /\ readers = [r \in Readers |-> Idle]

NextConc ==
    \/ \E c \in GroupIds, p \in GroupIds : RevokeParent(c, p)
    \/ \E r \in Readers, g \in GroupIds : ReaderLoad(r, g)
    \/ \E r \in Readers : ReaderLookup(r)
    \/ \E r \in Readers : ReaderReturn(r)

SpecConc == InitConc /\ [][NextConc]_vars

====
